---- MODULE Spec2Model ----
(***************************************************************************)
(* Architect Guru (src/app.py): the four-step wizard kept in Streamlit's   *)
(* session state, and the ArchitectAgent functions that turn the replies   *)
(* of the completion endpoint into question lists and a recommendation     *)
(* document.                                                               *)
(*                                                                         *)
(* Python values are records tagged by their kind; a reply text is plain   *)
(* text or the JSON document it spells, and json_loads turns the JSON      *)
(* document into the Python value json.loads returns for it.              *)
(***************************************************************************)
EXTENDS Integers, Sequences, FiniteSets, TLC

\* ------------------------------------------------------------------ bounds

\* The user fills in at most the first MaxAnswered text inputs of a question
\* form and leaves the others blank.
MaxAnswered == 1

\* In the specification of the answer forms, the positions that may be
\* filled in are the first MaxFilled.
MaxFilled == 2

\* ------------------------------------------------------------ Python values

PyStr(s) == [kind |-> "str", s |-> s]
PyInt(n) == [kind |-> "int", n |-> n]
PyNone == [kind |-> "None"]
PyList(items) == [kind |-> "list", items |-> items]
PyDict(f) == [kind |-> "dict", entries |-> f]

\* {} as the value of a session field that is always a dict.
EmptyDict == [k \in {} |-> ""]

\* The strings of the model that consist of white space only.
WhitespaceOnly == {"", " ", " \n "}

\* str.strip(): none of the other strings of the model has leading or
\* trailing white space.
strip(s) == IF s \in WhitespaceOnly THEN "" ELSE s

\* needle in hay, for two str: the substring test, tabulated for the strings
\* of the model.
StrContains(hay, needle) ==
    \/ hay = needle
    \/ /\ hay = "use option1 or option2"
       /\ needle \in {"option1", "option2"}

\* The characters of a str, in order (iterating a str yields them),
\* tabulated: "Q?" is the one str of more than one character that the model
\* iterates.
Chars(s) ==
    CASE s = "Q?" -> <<"Q", "?">>
      [] s = "" -> <<>>
      [] OTHER -> <<s>>

\* Some enumeration of a finite set as a sequence without repetition.
RECURSIVE SetToSeq(_)
SetToSeq(S) ==
    IF S = {} THEN <<>>
    ELSE LET x == CHOOSE y \in S : TRUE IN <<x>> \o SetToSeq(S \ {x})

\* `item in container`: [raised |-> exception or "none", value |-> BOOLEAN].
\* int and None are not iterable: TypeError.
PyContains(container, item) ==
    CASE container.kind = "dict" ->
            [raised |-> "none", value |-> item \in DOMAIN container.entries]
      [] container.kind = "list" ->
            [raised |-> "none",
             value |-> \E i \in DOMAIN container.items : container.items[i] = PyStr(item)]
      [] container.kind = "str" ->
            [raised |-> "none", value |-> StrContains(container.s, item)]
      [] OTHER -> [raised |-> "TypeError", value |-> FALSE]

\* container[key] for a str key: only a dict can be indexed by a str.
PyGetItem(container, key) ==
    IF container.kind = "dict"
    THEN IF key \in DOMAIN container.entries
         THEN [raised |-> "none", value |-> container.entries[key]]
         ELSE [raised |-> "KeyError", value |-> PyNone]
    ELSE [raised |-> "TypeError", value |-> PyNone]

\* iter(value): the sequence a for loop or enumerate() runs over.
PyIterable(value) == value.kind \in {"list", "dict", "str"}

PyIter(value) ==
    CASE value.kind = "list" -> value.items
      [] value.kind = "dict" ->
            LET keys == SetToSeq(DOMAIN value.entries)
            IN [i \in DOMAIN keys |-> PyStr(keys[i])]
      [] value.kind = "str" ->
            LET cs == Chars(value.s) IN [i \in DOMAIN cs |-> PyStr(cs[i])]
      [] OTHER -> <<>>

\* ---------------------------------------------------------------- JSON text

\* A reply text: plain text that is no JSON document, or the JSON document
\* it spells.
PlainText(s) == [kind |-> "plain", text |-> s]
JString(s) == [kind |-> "string", s |-> s]
JNumber(n) == [kind |-> "number", n |-> n]
JNull == [kind |-> "null"]
JArray(items) == [kind |-> "array", items |-> items]
JObject(f) == [kind |-> "object", members |-> f]

\* json.loads(text): [raised |-> "JSONDecodeError" or "none", value |-> ...].
RECURSIVE FromJson(_)
FromJson(j) ==
    CASE j.kind = "string" -> PyStr(j.s)
      [] j.kind = "number" -> PyInt(j.n)
      [] j.kind = "null" -> PyNone
      [] j.kind = "array" -> PyList([i \in DOMAIN j.items |-> FromJson(j.items[i])])
      [] j.kind = "object" -> PyDict([k \in DOMAIN j.members |-> FromJson(j.members[k])])

json_loads(text) ==
    IF text.kind = "plain"
    THEN [raised |-> "JSONDecodeError", value |-> PyNone]
    ELSE [raised |-> "none", value |-> FromJson(text)]

\* ------------------------------------------------------- completion endpoint

\* What one call of _get_completion does: it raises (network, quota, auth:
\* an exception of the client library), or it returns the reply text.
Raises(e) == [raised |-> e, text |-> PlainText("")]
Returns(t) == [raised |-> "none", text |-> t]

Message(role, content) == [role |-> role, content |-> content]

\* A rendered prompt: the template and the values the f-string embeds.
Prompt(template, args) == [template |-> template, args |-> args]

\* ------------------------------------------------------------ ArchitectAgent

Q(s) == PyStr(s)

_get_fallback_scope_questions ==
    PyList(<<
        Q("What are the specific business objectives this project needs to achieve?"),
        Q("What are the main constraints in terms of timeline and budget?"),
        Q("What are the critical technical limitations or requirements?"),
        Q("Who are the key stakeholders and what are their expectations?"),
        Q("What are the non-negotiable requirements for this project?"),
        Q("What existing systems or processes need to be considered?")
    >>)

_get_fallback_solution_questions ==
    PyList(<<
        Q("What architectural patterns have worked well in your organization?"),
        Q("What are your scalability and performance requirements?"),
        Q("What is your team's experience with different technology stacks?"),
        Q("How do you prefer to handle deployment and operations?"),
        Q("What are your primary security and compliance needs?"),
        Q("What is your preferred development methodology?")
    >>)

\* Mutant: a list shorter than the six questions asked for is replaced by
\* the fallback list.
QuestionsFrom_at_least_six(messages, c, fallback) ==
    IF c.raised # "none"
    THEN [raised |-> c.raised, value |-> PyNone, calls |-> <<messages>>]
    ELSE LET r == json_loads(c.text)
         IN IF r.raised = "JSONDecodeError"
               \/ (r.value.kind = "list" /\ Len(r.value.items) < 6)
            THEN [raised |-> "none", value |-> fallback, calls |-> <<messages>>]
            ELSE [raised |-> "none", value |-> r.value, calls |-> <<messages>>]

\* Mutant: a reply that is no JSON is asked for once more before falling
\* back.
QuestionsFrom_retrying(messages, c, fallback) ==
    IF c.raised # "none"
    THEN [raised |-> c.raised, value |-> PyNone, calls |-> <<messages>>]
    ELSE LET r == json_loads(c.text)
         IN IF r.raised = "JSONDecodeError"
            THEN [raised |-> "none", value |-> fallback,
                  calls |-> <<messages, messages>>]
            ELSE [raised |-> "none", value |-> r.value, calls |-> <<messages>>]

\* The try block shared by the two question generators: the completion
\* call, json.loads of its reply, and the fallback list on JSONDecodeError
\* (the only exception caught). Whatever json.loads returns is returned.
QuestionsFrom(messages, c, fallback) ==
    IF c.raised # "none"
    THEN [raised |-> c.raised, value |-> PyNone, calls |-> <<messages>>]
    ELSE LET r == json_loads(c.text)
         IN IF r.raised = "JSONDecodeError"
            THEN [raised |-> "none", value |-> fallback, calls |-> <<messages>>]
            ELSE [raised |-> "none", value |-> r.value, calls |-> <<messages>>]

generate_scope_questions(project_description, main_challenge, challenges, c) ==
    LET prompt == Prompt("scope",
                         <<project_description, main_challenge, challenges>>)
        messages == <<Message("system", Prompt("scope system", <<>>)),
                      Message("user", prompt)>>
    IN QuestionsFrom(messages, c, _get_fallback_scope_questions)

\* Mutant: the solution phase falls back to the list of the scope phase.
generate_solution_questions_scope_fallback(project_info, scope_answers, c) ==
    LET prompt == Prompt("solution", <<project_info, scope_answers>>)
        messages == <<Message("system", Prompt("solution system", <<>>)),
                      Message("user", prompt)>>
    IN QuestionsFrom(messages, c, _get_fallback_scope_questions)

generate_solution_questions(project_info, scope_answers, c) ==
    LET prompt == Prompt("solution", <<project_info, scope_answers>>)
        messages == <<Message("system", Prompt("solution system", <<>>)),
                      Message("user", prompt)>>
    IN QuestionsFrom(messages, c, _get_fallback_solution_questions)

Options == <<"option1", "option2">>
required_sections == <<"overview", "technical", "implementation", "rationale">>

\* The literal document of the except branch; each of its eight markdown
\* texts is named by its heading and its option.
FallbackRecommendations ==
    PyDict([o \in {"option1", "option2"} |->
        IF o = "option1"
        THEN PyDict([overview |-> PyStr("# Solution Overview (fallback option1)"),
                     technical |-> PyStr("# Technical Details (fallback option1)"),
                     implementation |->
                         PyStr("# Implementation Strategy (fallback option1)"),
                     rationale |-> PyStr("# Decision Rationale (fallback option1)")])
        ELSE PyDict([overview |-> PyStr("# Solution Overview (fallback option2)"),
                     technical |-> PyStr("# Technical Details (fallback option2)"),
                     implementation |->
                         PyStr("# Implementation Strategy (fallback option2)"),
                     rationale |-> PyStr("# Decision Rationale (fallback option2)")])])

\* The first entry of a sequence of outcomes that is not "ok".
FirstError(outcomes) ==
    IF \E i \in DOMAIN outcomes : outcomes[i] # "ok"
    THEN outcomes[CHOOSE i \in DOMAIN outcomes :
                    /\ outcomes[i] # "ok"
                    /\ \A j \in 1..(i - 1) : outcomes[j] = "ok"]
    ELSE "ok"

\* Mutant: a section is checked for presence only, not for content.
CheckSection_presence_only(recommendations, option, section) ==
    LET opt == PyGetItem(recommendations, option)
    IN IF opt.raised # "none" THEN opt.raised
       ELSE LET has == PyContains(opt.value, section)
            IN IF has.raised # "none" THEN has.raised
               ELSE IF ~has.value THEN "KeyError"
               ELSE "ok"

\* One pass of the inner loop: `section not in recommendations[option]`,
\* then `not recommendations[option][section].strip()`.
CheckSection(recommendations, option, section) ==
    LET opt == PyGetItem(recommendations, option)
    IN IF opt.raised # "none" THEN opt.raised
       ELSE LET has == PyContains(opt.value, section)
            IN IF has.raised # "none" THEN has.raised
               ELSE IF ~has.value THEN "KeyError"
               ELSE LET val == PyGetItem(opt.value, section)
                    IN IF val.raised # "none" THEN val.raised
                       ELSE IF val.value.kind # "str" THEN "AttributeError"
                       ELSE IF strip(val.value.s) = "" THEN "ValueError"
                       ELSE "ok"

\* One pass of the outer loop: `option not in recommendations`, then the
\* sections in order.
CheckOption(recommendations, option) ==
    LET has == PyContains(recommendations, option)
    IN IF has.raised # "none" THEN has.raised
       ELSE IF ~has.value THEN "KeyError"
       ELSE FirstError([i \in DOMAIN required_sections |->
                CheckSection(recommendations, option, required_sections[i])])

\* Mutant: only the first option is validated.
ValidateRecommendations_first_option(recommendations) ==
    CheckOption(recommendations, Options[1])

\* "Validate the response structure": "ok" or the exception raised first.
ValidateRecommendations(recommendations) ==
    FirstError([i \in DOMAIN Options |-> CheckOption(recommendations, Options[i])])

\* Mutant: the recommendation prompt is sent on its own, without the
\* conversation before it.
RecommendationMessages_without_history(messages, analysis) ==
    <<Message("user", Prompt("recommendation", <<analysis>>))>>

\* The two `messages.append` before the second call: the list of the first
\* call, then the analysis as the assistant's turn, then the recommendation
\* prompt, an f-string that embeds the analysis.
RecommendationMessages(messages, analysis) ==
    messages \o <<Message("assistant", analysis),
                  Message("user", Prompt("recommendation", <<analysis>>))>>

\* c1 is the analysis call, c2 the recommendation call.
generate_final_recommendations(project_info, scope_answers, solution_answers, c1, c2) ==
    LET analysis_prompt ==
            Prompt("analysis", <<project_info, scope_answers, solution_answers>>)
        messages1 == <<Message("system", Prompt("recommendation system", <<>>)),
                       Message("user", analysis_prompt)>>
        analysis == c1.text
        messages2 == RecommendationMessages(messages1, analysis)
        Raise(e, calls) == [raised |-> e, value |-> PyNone, calls |-> calls]
        Return(v) == [raised |-> "none", value |-> v,
                      calls |-> <<messages1, messages2>>]
    IN IF c1.raised # "none" THEN Raise(c1.raised, <<messages1>>)
       ELSE IF c2.raised # "none" THEN Raise(c2.raised, <<messages1, messages2>>)
       ELSE LET r == json_loads(c2.text)
                e == IF r.raised # "none" THEN r.raised
                     ELSE ValidateRecommendations(r.value)
            IN IF e = "ok" THEN Return(r.value)
               ELSE IF e \in {"JSONDecodeError", "KeyError", "ValueError"}
                    THEN Return(FallbackRecommendations)
               ELSE Raise(e, <<messages1, messages2>>)

\* ------------------------------------------------------------------- inputs

\* What the user types into a text field.
UserTexts == {"", "a"}

\* What the user picks in the multiselect (a list, in the order picked).
Selections == {<<>>, <<"Security">>}

\* Replies to a question prompt.
QuestionReplies ==
    { PlainText("not json"),
      PlainText(""),
      JArray(<<JString("Q1?"), JString("Q2?")>>),
      JArray(<<JString("Q1?"), JString("Q1?")>>),
      JArray(<<>>),
      JArray(<<JNumber(1), JNumber(2)>>),
      JObject([questions |-> JArray(<<JString("Q1?")>>)]),
      JNumber(5),
      JNull,
      JString("Q?") }

\* The exception of the client library when the endpoint fails.
UpstreamError == "UpstreamError"

\* What a completion call may do when the endpoint draws its replies from
\* the set replies.
Outcomes(replies) == {Raises(UpstreamError)} \cup {Returns(t) : t \in replies}

\* Replies to the analysis prompt: free text, or nothing at all.
AnalysisReplies == {PlainText("analysis"), PlainText("")}

SectionNames == {"overview", "technical", "implementation", "rationale"}
OptionNames == {"option1", "option2"}

\* A reply with both options and the four sections of each.
ModelOption(o) ==
    IF o = "option1"
    THEN [overview |-> JString("model overview 1"),
          technical |-> JString("model technical 1"),
          implementation |-> JString("model implementation 1"),
          rationale |-> JString("model rationale 1")]
    ELSE [overview |-> JString("model overview 2"),
          technical |-> JString("model technical 2"),
          implementation |-> JString("model implementation 2"),
          rationale |-> JString("model rationale 2")]

ModelDocument == JObject([o \in OptionNames |-> JObject(ModelOption(o))])

\* f without the key k; f with the key k set to x.
Without(f, k) == [j \in DOMAIN f \ {k} |-> f[j]]
With(f, k, x) == [j \in DOMAIN f \cup {k} |-> IF j = k THEN x ELSE f[j]]

\* ModelDocument without the section s of the option o.
MissingSection(o, s) ==
    JObject(With(ModelDocument.members, o, JObject(Without(ModelOption(o), s))))

\* ModelDocument with the section s of the option o replaced by d.
ReplacedSection(o, s, d) ==
    JObject(With(ModelDocument.members, o, JObject(With(ModelOption(o), s, d))))

SectionDefects ==
    {JString(""), JString(" "), JString(" \n "), JNumber(5), JNull, JArray(<<>>)}

\* ModelDocument with the option o replaced by d.
ReplacedOption(o, d) == JObject(With(ModelDocument.members, o, d))

OptionDefects ==
    {JNumber(5), JNull, JString("text"), JArray(<<>>),
     JArray(<<JString("overview"), JString("technical"),
              JString("implementation"), JString("rationale")>>),
     JObject([k \in {} |-> JNull])}

\* Replies to the recommendation prompt: the document asked for, and replies
\* that break the schema at the top, at an option, or at a section.
RecommendationReplies ==
    {ModelDocument,
     JObject(With(ModelDocument.members, "notes", JString("extra"))),
     PlainText("not json"), JNumber(5), JNull, JString("text"),
     JString("use option1 or option2"), JArray(<<>>),
     JArray(<<JString("option1"), JString("option2")>>),
     JObject([k \in {} |-> JNull])}
    \cup {MissingSection(o, s) : o \in OptionNames, s \in SectionNames}
    \cup {ReplacedSection("option1", "overview", d) : d \in SectionDefects}
    \cup {ReplacedSection("option2", "rationale", d) : d \in SectionDefects}
    \cup {JObject(Without(ModelDocument.members, o)) : o \in OptionNames}
    \cup {ReplacedOption(o, d) : o \in OptionNames, d \in OptionDefects}

\* The smaller sets of replies of the specification Spec.
FewQuestionReplies ==
    {PlainText("not json"), JArray(<<JString("Q1?"), JString("Q2?")>>), JNumber(5)}

FewRecommendationReplies ==
    {ModelDocument, PlainText("not json"),
     MissingSection("option2", "rationale"),
     ReplacedSection("option1", "overview", JNumber(5))}

\* ------------------------------------------------------------ session state

VARIABLES
    session_state,  \* st.session_state: the eight fields of the wizard
    outcome         \* what the last script run did: the operation, how it
                    \* ended and the completion calls it made

vars == <<session_state, outcome>>

NoState == [k \in {} |-> 0]

Defaults ==
    [current_step |-> 0,
     project_info |-> EmptyDict,
     scope_questions |-> PyList(<<>>),
     scope_answers |-> EmptyDict,
     solution_questions |-> PyList(<<>>),
     solution_answers |-> EmptyDict,
     recommendations |-> PyNone,
     form_data |-> EmptyDict]

\* Every key that is not in the session state gets its default.
initialize_session_state(ss) ==
    [k \in DOMAIN Defaults |-> IF k \in DOMAIN ss THEN ss[k] ELSE Defaults[k]]

\* Mutant: the form data survive the reset.
clear_keeps_form_data(ss) == [k \in {"form_data"} |-> ss.form_data]

\* st.session_state.clear()
clear(ss) == NoState

\* What a script run did: the operation, the step it started in, what the
\* user entered, what the completion calls did, how the run ended ("ok",
\* "rejected", or "raised" with the exception) and the messages of each call.
Outcome(op, before, inputs, replies, result, raised, calls) ==
    [op |-> op, before |-> before, inputs |-> inputs, replies |-> replies,
     result |-> result, raised |-> raised, calls |-> calls]

Init ==
    /\ session_state = initialize_session_state(NoState)
    /\ outcome = Outcome("init", 0, <<>>, <<>>, "ok", "none", <<>>)

\* Mutant: an answer is stored under the label of its field, Q1, Q2, ...
CollectAnswers_keyed_by_label(questions, inputs) ==
    LET label == <<"Q1", "Q2", "Q3", "Q4", "Q5", "Q6">>
    IN [q \in {PyStr(label[i]) : i \in {j \in DOMAIN questions : inputs[j] # ""}}
           |-> inputs[CHOOSE i \in DOMAIN questions : PyStr(label[i]) = q]]

\* Mutant: every question gets an entry, answered or not.
CollectAnswers_keeping_blanks(questions, inputs) ==
    LET last(q) == CHOOSE i \in DOMAIN questions :
                      /\ questions[i] = q
                      /\ \A j \in DOMAIN questions : questions[j] = q => j <= i
    IN [q \in {questions[i] : i \in DOMAIN questions} |-> inputs[last(q)]]

\* The answers dict a question form builds: one text input per position of
\* the question list, and `if answer: answers[question] = answer` in order,
\* so that a later position overwrites an earlier one with the same question.
CollectAnswers(questions, inputs) ==
    LET answered == {i \in DOMAIN questions : inputs[i] # ""}
        last(q) == CHOOSE i \in answered :
                      /\ questions[i] = q
                      /\ \A j \in answered : questions[j] = q => j <= i
    IN [q \in {questions[i] : i \in answered} |-> inputs[last(q)]]

\* The inputs the user may make to a form with these questions: one of the
\* texts in each of the first `filled` fields, nothing in the others.
FormInputsOf(questions, texts, filled) ==
    {inputs \in [DOMAIN questions -> texts] :
        \A i \in DOMAIN questions : i > filled => inputs[i] = ""}

\* The inputs of the wizard's specifications.
FormInputs(questions) == FormInputsOf(questions, UserTexts, MaxAnswered)

\* Two different answers to give.
WideTexts == {"", "a", "b"}

\* "Reset / Start Over" in the sidebar, at any step: clear(), and the rerun
\* initializes the session state again.
Reset ==
    /\ session_state' = initialize_session_state(clear(session_state))
    /\ outcome' = Outcome("reset", session_state.current_step, <<>>, <<>>,
                          "ok", "none", <<>>)

\* Mutant: only the description is required.
ProjectFormValid_description_only(project_description, main_challenge) ==
    project_description # ""

\* `project_description and main_challenge`: both str are non-empty.
ProjectFormValid(project_description, main_challenge) ==
    project_description # "" /\ main_challenge # ""

\* "Generate Questions" of the project form (step 0).
SubmitProject(replies) ==
    /\ session_state.current_step = 0
    /\ \E project_name \in UserTexts, main_challenge \in UserTexts,
          project_description \in UserTexts, additional_challenges \in Selections,
          c \in Outcomes(replies) :
        LET inputs == [project_name |-> project_name,
                       main_challenge |-> main_challenge,
                       project_description |-> project_description,
                       additional_challenges |-> additional_challenges]
        IN IF ProjectFormValid(project_description, main_challenge)
           THEN LET r == generate_scope_questions(project_description,
                                main_challenge, additional_challenges, c)
                    ss1 == [session_state EXCEPT
                               !.form_data =
                                   [project_name |-> project_name,
                                    main_challenge |-> main_challenge,
                                    project_description |-> project_description],
                               !.project_info =
                                   [description |-> project_description,
                                    main_challenge |-> main_challenge,
                                    challenges |-> additional_challenges]]
                IN IF r.raised = "none"
                   THEN /\ session_state' = [ss1 EXCEPT !.scope_questions = r.value,
                                                        !.current_step = 1]
                        /\ outcome' = Outcome("submit_project", 0, inputs, <<c>>,
                                              "ok", "none", r.calls)
                   ELSE /\ session_state' = ss1
                        /\ outcome' = Outcome("submit_project", 0, inputs, <<c>>,
                                              "raised", r.raised, r.calls)
           ELSE /\ session_state' = session_state
                /\ outcome' = Outcome("submit_project", 0, inputs, <<>>,
                                      "rejected", "none", <<>>)

\* Mutant: going back to the project form forgets the project facts.
BackToProject_forgetting_facts ==
    /\ session_state.current_step = 1
    /\ session_state' = [session_state EXCEPT !.current_step = 0,
                                              !.project_info = EmptyDict]
    /\ outcome' = Outcome("back", 1, <<>>, <<>>, "ok", "none", <<>>)

\* "Back to Project Description" (step 1).
BackToProject ==
    /\ session_state.current_step = 1
    /\ session_state' = [session_state EXCEPT !.current_step = 0]
    /\ outcome' = Outcome("back", 1, <<>>, <<>>, "ok", "none", <<>>)

\* Mutant: the solution questions are generated before the new answers are
\* stored, from the answers stored until then.
SubmitScopeAnswers_from_stored_answers(replies) ==
    /\ session_state.current_step = 1
    /\ PyIterable(session_state.scope_questions)
    /\ \E inputs \in FormInputs(PyIter(session_state.scope_questions)),
          c \in Outcomes(replies) :
        LET answers == CollectAnswers(PyIter(session_state.scope_questions), inputs)
            ss1 == [session_state EXCEPT !.scope_answers = answers]
            r == generate_solution_questions(session_state.project_info,
                                             session_state.scope_answers, c)
        IN IF r.raised = "none"
           THEN /\ session_state' = [ss1 EXCEPT !.solution_questions = r.value,
                                                !.current_step = 2]
                /\ outcome' = Outcome("submit_scope", 1, inputs, <<c>>,
                                      "ok", "none", r.calls)
           ELSE /\ session_state' = ss1
                /\ outcome' = Outcome("submit_scope", 1, inputs, <<c>>,
                                      "raised", r.raised, r.calls)

\* "Continue to Solution Exploration" of the scope form (step 1). The form
\* is there only if the loop over scope_questions did not raise.
SubmitScopeForm(replies, texts, filled) ==
    /\ session_state.current_step = 1
    /\ PyIterable(session_state.scope_questions)
    /\ \E inputs \in FormInputsOf(PyIter(session_state.scope_questions), texts, filled),
          c \in Outcomes(replies) :
        LET answers == CollectAnswers(PyIter(session_state.scope_questions), inputs)
            ss1 == [session_state EXCEPT !.scope_answers = answers]
            r == generate_solution_questions(ss1.project_info, ss1.scope_answers, c)
        IN IF r.raised = "none"
           THEN /\ session_state' = [ss1 EXCEPT !.solution_questions = r.value,
                                                !.current_step = 2]
                /\ outcome' = Outcome("submit_scope", 1, inputs, <<c>>,
                                      "ok", "none", r.calls)
           ELSE /\ session_state' = ss1
                /\ outcome' = Outcome("submit_scope", 1, inputs, <<c>>,
                                      "raised", r.raised, r.calls)

\* The scope form with the inputs of the wizard's specifications.
SubmitScopeAnswers(replies) == SubmitScopeForm(replies, UserTexts, MaxAnswered)

\* Mutant: the button goes back to the first step.
BackToScope_to_first_step ==
    /\ session_state.current_step = 2
    /\ session_state' = [session_state EXCEPT !.current_step = 0]
    /\ outcome' = Outcome("back", 2, <<>>, <<>>, "ok", "none", <<>>)

\* Mutant: the button also discards the solution questions and answers.
BackToScope_discarding ==
    /\ session_state.current_step = 2
    /\ session_state' = [session_state EXCEPT !.current_step = 1,
                                              !.solution_questions = PyList(<<>>),
                                              !.solution_answers = EmptyDict]
    /\ outcome' = Outcome("back", 2, <<>>, <<>>, "ok", "none", <<>>)

\* "Back to Scope Definition" (step 2).
BackToScope ==
    /\ session_state.current_step = 2
    /\ session_state' = [session_state EXCEPT !.current_step = 1]
    /\ outcome' = Outcome("back", 2, <<>>, <<>>, "ok", "none", <<>>)

\* "Generate Final Recommendations" of the solution form (step 2). The
\* recommendation call is made only if the analysis call returned.
SubmitSolutionForm(analyses, replies) ==
    /\ session_state.current_step = 2
    /\ PyIterable(session_state.solution_questions)
    /\ \E inputs \in FormInputs(PyIter(session_state.solution_questions)),
          c1 \in Outcomes(analyses) :
       \E c2 \in IF c1.raised = "none" THEN Outcomes(replies)
                  ELSE {Raises("not called")} :
        LET answers == CollectAnswers(PyIter(session_state.solution_questions), inputs)
            ss1 == [session_state EXCEPT !.solution_answers = answers]
            r == generate_final_recommendations(ss1.project_info, ss1.scope_answers,
                                                ss1.solution_answers, c1, c2)
            cs == IF c1.raised = "none" THEN <<c1, c2>> ELSE <<c1>>
        IN IF r.raised = "none"
           THEN /\ session_state' = [ss1 EXCEPT !.recommendations = r.value,
                                                !.current_step = 3]
                /\ outcome' = Outcome("submit_solution", 2, inputs, cs,
                                      "ok", "none", r.calls)
           ELSE /\ session_state' = ss1
                /\ outcome' = Outcome("submit_solution", 2, inputs, cs,
                                      "raised", r.raised, r.calls)

\* The solution form with an endpoint that may return an empty analysis.
SubmitSolutionAnswers(replies) == SubmitSolutionForm(AnalysisReplies, replies)

\* Mutant: going back from the recommendations drops them.
BackToSolution_dropping_document ==
    /\ session_state.current_step = 3
    /\ session_state' = [session_state EXCEPT !.current_step = 2,
                                              !.recommendations = PyNone]
    /\ outcome' = Outcome("back", 3, <<>>, <<>>, "ok", "none", <<>>)

\* "Back to Solution Exploration" (step 3).
BackToSolution ==
    /\ session_state.current_step = 3
    /\ session_state' = [session_state EXCEPT !.current_step = 2]
    /\ outcome' = Outcome("back", 3, <<>>, <<>>, "ok", "none", <<>>)

\* Replies to a question prompt with and without a repeated question.
RepeatingReplies ==
    { JArray(<<JString("Q1?"), JString("Q1?")>>),
      JArray(<<JString("Q1?"), JString("Q2?")>>) }

\* The two question phases with two answers to give: the first two fields
\* of the scope form take any of the wide texts.
NextAnswers ==
    \/ Reset
    \/ SubmitProject(RepeatingReplies)
    \/ BackToProject
    \/ SubmitScopeForm(RepeatingReplies, WideTexts, MaxFilled)
    \/ BackToScope

AnswersSpec == Init /\ [][NextAnswers]_vars

\* The wizard, with an endpoint that draws its replies from the smaller sets.
Next ==
    \/ Reset
    \/ SubmitProject(FewQuestionReplies)
    \/ BackToProject
    \/ SubmitScopeAnswers(FewQuestionReplies)
    \/ BackToScope
    \/ SubmitSolutionAnswers(FewRecommendationReplies)
    \/ BackToSolution

Spec == Init /\ [][Next]_vars

\* The wizard up to the solution form, with every reply to a question prompt.
NextQuestions ==
    \/ Reset
    \/ SubmitProject(QuestionReplies)
    \/ BackToProject
    \/ SubmitScopeAnswers(QuestionReplies)
    \/ BackToScope

QuestionSpec == Init /\ [][NextQuestions]_vars

\* The wizard with every reply to the recommendation prompt, the question
\* prompts being answered by text that is no JSON.
NextSynthesis ==
    \/ Reset
    \/ SubmitProject({PlainText("not json")})
    \/ BackToProject
    \/ SubmitScopeAnswers({PlainText("not json")})
    \/ BackToScope
    \/ SubmitSolutionForm({PlainText("analysis")}, RecommendationReplies)
    \/ BackToSolution

SynthesisSpec == Init /\ [][NextSynthesis]_vars

\* ------------------------------------------------------------------- claims

SubmitOps == {"submit_project", "submit_scope", "submit_solution"}

\* C1: the phase index is always one of 0, 1, 2, 3, and one operation moves
\* it by +1 (only a submit that succeeded, from the step of its form), by -1
\* (only Back), to 0 (Reset) or not at all: no operation skips a phase.
C1_PhaseIndexStepsByOne ==
    [][LET s == session_state.current_step
           t == session_state'.current_step
       IN /\ s \in 0..3 /\ t \in 0..3
          /\ \/ t = s + 1 /\ outcome'.op \in SubmitOps /\ outcome'.result = "ok"
             \/ t = s - 1 /\ outcome'.op = "back"
             \/ t = 0 /\ outcome'.op = "reset"
             \/ t = s /\ outcome'.op \in SubmitOps /\ outcome'.result # "ok"
          /\ outcome'.before = s]_vars

\* C1 witness: the last step was reached by the submit of the step before it.
C1_Witness ==
    /\ session_state.current_step = 3
    /\ outcome.op = "submit_solution"
    /\ outcome.before = 2

\* C2: a project form submitted with an empty description or an empty main
\* challenge changes no field of the session state, and makes no completion
\* call.
C2_InvalidProjectChangesNothing ==
    [][(/\ outcome'.op = "submit_project"
        /\ \/ outcome'.inputs.project_description = ""
           \/ outcome'.inputs.main_challenge = "")
       => /\ session_state' = session_state
          /\ outcome'.calls = <<>>
          /\ outcome'.replies = <<>>
          /\ outcome'.result = "rejected"]_vars

\* C2 witness: a form with a description and no main challenge was submitted
\* in a session that had already stored project facts.
C2_Witness ==
    /\ outcome.op = "submit_project"
    /\ outcome.inputs.project_description # ""
    /\ outcome.inputs.main_challenge = ""
    /\ session_state.project_info # EmptyDict

\* C3 (as claimed): when a completion call of a submit raises, the session
\* state is what it was before the submit.
C3_UpstreamFailureChangesNothing ==
    [][(outcome'.op \in SubmitOps /\ outcome'.raised = UpstreamError)
       => session_state' = session_state]_vars

\* C4 (as claimed): Back from step 2 keeps scope_answers and discards
\* solution_questions and solution_answers.
C4_BackDiscardsRoundTwo ==
    [][(outcome'.op = "back" /\ outcome'.before = 2)
       => /\ session_state'.scope_answers = session_state.scope_answers
          /\ session_state'.solution_questions = PyList(<<>>)
          /\ session_state'.solution_answers = EmptyDict]_vars

\* C4 (amended): Back from step 2 moves to step 1, keeps scope_answers and
\* discards nothing: solution_questions and solution_answers stay as they
\* are.
C4_BackFromSolutionKeepsRoundTwo ==
    [][(outcome'.op = "back" /\ outcome'.before = 2)
       => /\ session_state'.current_step = 1
          /\ session_state'.scope_answers = session_state.scope_answers
          /\ session_state'.solution_questions = session_state.solution_questions
          /\ session_state'.solution_answers = session_state.solution_answers]_vars

\* C4 witness: Back from step 2 with scope answers, solution questions and
\* solution answers in the session.
C4_Witness ==
    /\ outcome.op = "back"
    /\ outcome.before = 2
    /\ session_state.current_step = 1
    /\ session_state.scope_answers # EmptyDict
    /\ session_state.solution_questions # PyList(<<>>)
    /\ session_state.solution_answers # EmptyDict

\* The state after construction, as the claim spells it.
FreshState ==
    [current_step |-> 0,
     project_info |-> EmptyDict,
     scope_questions |-> PyList(<<>>),
     scope_answers |-> EmptyDict,
     solution_questions |-> PyList(<<>>),
     solution_answers |-> EmptyDict,
     recommendations |-> PyNone,
     form_data |-> EmptyDict]

\* C5: after Reset, from any step and with any data, the session state is
\* the state after construction.
C5_ResetGivesFreshState ==
    outcome.op \in {"init", "reset"} => session_state = FreshState

\* C5 precondition: a session at the last step with every field filled.
C5_FullSession ==
    /\ session_state.current_step = 3
    /\ session_state.project_info # EmptyDict
    /\ session_state.form_data # EmptyDict
    /\ session_state.scope_answers # EmptyDict
    /\ session_state.solution_answers # EmptyDict
    /\ session_state.recommendations # PyNone

\* C5 witness: Reset acted at step 3.
C5_Witness == outcome.op = "reset" /\ outcome.before = 3

\* A str with something other than white space in it.
NonBlank(s) == s \notin WhitespaceOnly

\* The recommendation schema, on the JSON document of a reply: an object
\* with option1 and option2, each an object with the four sections, each a
\* string that is not blank.
ConformsToSchema(t) ==
    /\ t.kind = "object"
    /\ \A o \in OptionNames :
        /\ o \in DOMAIN t.members
        /\ t.members[o].kind = "object"
        /\ \A sec \in SectionNames :
            /\ sec \in DOMAIN t.members[o].members
            /\ t.members[o].members[sec].kind = "string"
            /\ NonBlank(t.members[o].members[sec].s)

\* The recommendation call of the last run returned the text t.
RecommendationReplied(t) ==
    /\ outcome.op = "submit_solution"
    /\ Len(outcome.replies) = 2
    /\ outcome.replies[2] = Returns(t)

\* C6 (as claimed): whenever the reply of the recommendation call violates
\* the schema, the run ends well, with the fallback document stored and the
\* wizard at step 3.
C6_EverySchemaViolationFallsBack ==
    \A t \in RecommendationReplies :
        (RecommendationReplied(t) /\ ~ConformsToSchema(t))
        => /\ outcome.result = "ok"
           /\ session_state.current_step = 3
           /\ session_state.recommendations = FallbackRecommendations

\* ModelDocument with one required key left out.
OneKeyMissing ==
    {MissingSection(o, sec) : o \in OptionNames, sec \in SectionNames}
    \cup {JObject(Without(ModelDocument.members, o)) : o \in OptionNames}

\* C7: the document a synthesis returns is the parsed reply, when the reply
\* conforms to the schema, and the whole fallback document otherwise; a
\* reply with one required key missing gives the whole fallback document.
C7_DocumentIsReplyOrFallback ==
    \A t \in RecommendationReplies :
        RecommendationReplied(t)
        => /\ outcome.result = "ok"
              => session_state.recommendations =
                    IF ConformsToSchema(t) THEN FromJson(t)
                    ELSE FallbackRecommendations
           /\ t \in OneKeyMissing
              => /\ outcome.result = "ok"
                 /\ session_state.recommendations = FallbackRecommendations

\* C7 witness: the reply without option2.rationale gave the fallback.
C7_Witness ==
    /\ RecommendationReplied(MissingSection("option2", "rationale"))
    /\ session_state.recommendations = FallbackRecommendations
    /\ session_state.current_step = 3

\* The question prompt of the last run was answered by the text t.
QuestionReplied(op, t) ==
    /\ outcome.op = op
    /\ outcome.replies = <<Returns(t)>>

\* C8: when the reply to a question prompt is no JSON, the question list
\* stored is the fallback list of the phase, six questions, whatever the
\* facts and the answers were, and the phase index has advanced by one.
C8_NoJsonGivesFallbackQuestions ==
    \A t \in {r \in QuestionReplies : r.kind = "plain"} :
        /\ QuestionReplied("submit_project", t)
           => /\ session_state.scope_questions = _get_fallback_scope_questions
              /\ Len(session_state.scope_questions.items) = 6
              /\ session_state.current_step = 1
        /\ QuestionReplied("submit_scope", t)
           => /\ session_state.solution_questions = _get_fallback_solution_questions
              /\ Len(session_state.solution_questions.items) = 6
              /\ session_state.solution_questions # _get_fallback_scope_questions
              /\ session_state.current_step = 2

\* C8 witness: the scope form was submitted with an answer and the reply to
\* the solution prompt was no JSON.
C8_Witness ==
    /\ QuestionReplied("submit_scope", PlainText("not json"))
    /\ session_state.scope_answers # EmptyDict
    /\ session_state.solution_questions = _get_fallback_solution_questions

\* The value stored as the question list is not an empty collection.
NonEmptyQuestionList(v) == PyIterable(v) => Len(PyIter(v)) > 0

\* C9 (as claimed): a valid project form and any reply text move the wizard
\* from step 0 to step 1 with a non-empty question list stored.
C9_ProjectSubmitStoresQuestions ==
    (/\ outcome.op = "submit_project"
     /\ outcome.result # "rejected"
     /\ \E t \in QuestionReplies : outcome.replies = <<Returns(t)>>)
    => /\ session_state.current_step = 1
       /\ NonEmptyQuestionList(session_state.scope_questions)

\* A list of str.
ListOfStr(v) ==
    v.kind = "list" /\ \A i \in DOMAIN v.items : v.items[i].kind = "str"

\* The JSON document is an array of strings.
ArrayOfStrings(t) ==
    t.kind = "array" /\ \A i \in DOMAIN t.items : t.items[i].kind = "string"

\* C10 (as claimed): the question list stored by a question phase is a list
\* of str, and it is the fallback list when the reply is JSON but no array
\* of strings.
C10_StoredQuestionsAreStrings ==
    /\ (outcome.op = "submit_project" /\ outcome.result = "ok")
       => /\ ListOfStr(session_state.scope_questions)
          /\ \A t \in QuestionReplies :
                (outcome.replies = <<Returns(t)>> /\ t.kind # "plain"
                 /\ ~ArrayOfStrings(t))
                => session_state.scope_questions = _get_fallback_scope_questions
    /\ (outcome.op = "submit_scope" /\ outcome.result = "ok")
       => /\ ListOfStr(session_state.solution_questions)
          /\ \A t \in QuestionReplies :
                (outcome.replies = <<Returns(t)>> /\ t.kind # "plain"
                 /\ ~ArrayOfStrings(t))
                => session_state.solution_questions = _get_fallback_solution_questions

\* A document the last step can render: a dict with option1 and option2,
\* each a dict with the four sections, each a str that is not blank.
Renderable(doc) ==
    /\ doc.kind = "dict"
    /\ \A o \in OptionNames :
        /\ o \in DOMAIN doc.entries
        /\ doc.entries[o].kind = "dict"
        /\ \A sec \in SectionNames :
            /\ sec \in DOMAIN doc.entries[o].entries
            /\ doc.entries[o].entries[sec].kind = "str"
            /\ NonBlank(doc.entries[o].entries[sec].s)

\* C11: at step 3 the stored recommendation document is there and can be
\* rendered, whatever operations led there; the reply `not json` gives the
\* fallback document and step 3.
C11_DoneHasRenderableDocument ==
    /\ session_state.current_step = 3
       => Renderable(session_state.recommendations)
    /\ RecommendationReplied(PlainText("not json"))
       => /\ session_state.current_step = 3
          /\ session_state.recommendations = FallbackRecommendations
          /\ Renderable(FallbackRecommendations)

\* C11 witness: step 3 reached with the reply `not json`.
C11_Witness ==
    /\ RecommendationReplied(PlainText("not json"))
    /\ session_state.current_step = 3
    /\ session_state.scope_answers # EmptyDict

\* C12 (as claimed): once the first phase has completed (the wizard is past
\* step 0, or has just come back to it), nothing short of Reset changes
\* project_info.
C12_ProjectFactsNeverChange ==
    [][(/\ outcome'.op # "reset"
        /\ \/ session_state.current_step >= 1
           \/ outcome.op = "back")
       => session_state'.project_info = session_state.project_info]_vars

\* C12 (amended): project_info changes only by Reset and by a valid project
\* form submitted at step 0, which stores the facts entered; at steps 1 to
\* 3 nothing short of Reset changes it.
C12_ProjectFactsChangeOnlyByProjectForm ==
    [][/\ session_state'.project_info # session_state.project_info
          => \/ outcome'.op = "reset"
             \/ /\ outcome'.op = "submit_project"
                /\ session_state.current_step = 0
                /\ session_state'.project_info =
                      [description |-> outcome'.inputs.project_description,
                       main_challenge |-> outcome'.inputs.main_challenge,
                       challenges |-> outcome'.inputs.additional_challenges]
       /\ (session_state.current_step >= 1 /\ outcome'.op # "reset")
          => session_state'.project_info = session_state.project_info]_vars

\* C12 witness: back at step 1 from step 2, with the project facts stored.
C12_Witness ==
    /\ outcome.op = "back"
    /\ outcome.before = 2
    /\ session_state.project_info # EmptyDict
    /\ session_state.project_info.challenges = <<"Security">>

\* C13: a Back button moves the phase index back by one and changes no
\* other field of the session state.
C13_BackChangesOnlyPhaseIndex ==
    [][outcome'.op = "back"
       => /\ session_state.current_step \in 1..3
          /\ session_state' =
                [session_state EXCEPT !.current_step = session_state.current_step - 1]]_vars

\* C13 witness: Back from step 3 with the document still stored.
C13_Witness ==
    /\ outcome.op = "back"
    /\ outcome.before = 3
    /\ session_state.current_step = 2
    /\ session_state.recommendations # PyNone
    /\ session_state.solution_answers # EmptyDict

\* The questions of the form of the last run that were left blank at every
\* position they appear at.
LeftBlank(questions) ==
    {questions[i] : i \in DOMAIN questions} \
    {questions[i] : i \in {j \in DOMAIN questions : outcome.inputs[j] # ""}}

\* C14: every value of scope_answers and of solution_answers is a non-empty
\* str, and a question left blank in the form just submitted has no entry.
C14_AnswerMapsHoldNonEmptyAnswers ==
    /\ \A q \in DOMAIN session_state.scope_answers :
          session_state.scope_answers[q] # ""
    /\ \A q \in DOMAIN session_state.solution_answers :
          session_state.solution_answers[q] # ""
    /\ outcome.op = "submit_scope"
       => \A q \in LeftBlank(PyIter(session_state.scope_questions)) :
             q \notin DOMAIN session_state.scope_answers
    /\ outcome.op = "submit_solution"
       => \A q \in LeftBlank(PyIter(session_state.solution_questions)) :
             q \notin DOMAIN session_state.solution_answers

\* C14 witness: a scope form submitted with one question answered and
\* another left blank.
C14_Witness ==
    /\ outcome.op = "submit_scope"
    /\ session_state.scope_answers # EmptyDict
    /\ LeftBlank(PyIter(session_state.scope_questions)) # {}

\* The list of str that a JSON array of strings stands for.
ExactList(t) == PyList([i \in DOMAIN t.items |-> PyStr(t.items[i].s)])

\* C15: when the reply to a question prompt is a JSON array of strings, the
\* question list stored is that array, element by element, and the phase
\* index has advanced by one; the reply ["Q1?","Q2?"] to the project form
\* gives exactly Q1?, Q2? at step 1.
C15_ArrayOfStringsStoredAsIs ==
    /\ \A t \in {u \in QuestionReplies : ArrayOfStrings(u)} :
        /\ QuestionReplied("submit_project", t)
           => /\ outcome.result = "ok"
              /\ session_state.scope_questions = ExactList(t)
              /\ Len(session_state.scope_questions.items) = Len(t.items)
              /\ session_state.current_step = 1
        /\ QuestionReplied("submit_scope", t)
           => /\ outcome.result = "ok"
              /\ session_state.solution_questions = ExactList(t)
              /\ Len(session_state.solution_questions.items) = Len(t.items)
              /\ session_state.current_step = 2
    /\ QuestionReplied("submit_project", JArray(<<JString("Q1?"), JString("Q2?")>>))
       => session_state.scope_questions = PyList(<<PyStr("Q1?"), PyStr("Q2?")>>)

\* C15 witness: the solution questions are the two of the reply.
C15_Witness ==
    /\ QuestionReplied("submit_scope", JArray(<<JString("Q1?"), JString("Q2?")>>))
    /\ session_state.solution_questions = PyList(<<PyStr("Q1?"), PyStr("Q2?")>>)
    /\ session_state.current_step = 2

\* The prompt of the user message that ends a list of messages.
LastPrompt(messages) == messages[Len(messages)].content.template

\* C16: a submit that reaches a question generator makes one completion
\* call, whatever the reply; a solution submit makes the analysis call and
\* then the recommendation call, or the analysis call alone when that one
\* fails; Back, Reset and a rejected project form make no call.
C16_NoRetry ==
    /\ Len(outcome.calls) <= 2
    /\ Len(outcome.calls) = Len(outcome.replies)
    /\ (outcome.op = "submit_project" /\ outcome.result # "rejected")
       => Len(outcome.calls) = 1 /\ LastPrompt(outcome.calls[1]) = "scope"
    /\ outcome.op = "submit_scope"
       => Len(outcome.calls) = 1 /\ LastPrompt(outcome.calls[1]) = "solution"
    /\ outcome.op = "submit_solution"
       => /\ Len(outcome.calls) = (IF outcome.replies[1].raised = "none" THEN 2 ELSE 1)
          /\ LastPrompt(outcome.calls[1]) = "analysis"
          /\ Len(outcome.calls) = 2
             => LastPrompt(outcome.calls[2]) = "recommendation"
    /\ (outcome.op \in {"back", "reset"} \/ outcome.result = "rejected")
       => outcome.calls = <<>>

\* C16 witness: a recommendation reply that is no JSON, after two calls.
C16_Witness ==
    /\ RecommendationReplied(PlainText("not json"))
    /\ Len(outcome.calls) = 2
    /\ session_state.recommendations = FallbackRecommendations

\* C17: the messages of the recommendation call are the messages of the
\* analysis call (system, analysis prompt), then an assistant message with
\* the analysis reply as it came, then a user message that embeds that same
\* reply; whatever the analysis call returns, the second call is made.
C17_SecondCallCarriesConversation ==
    outcome.op = "submit_solution"
    => /\ Len(outcome.calls[1]) = 2
       /\ outcome.calls[1][1].role = "system"
       /\ outcome.calls[1][2].role = "user"
       /\ outcome.replies[1].raised = "none"
          => /\ Len(outcome.calls) = 2
             /\ Len(outcome.calls[2]) = 4
             /\ SubSeq(outcome.calls[2], 1, 2) = outcome.calls[1]
             /\ outcome.calls[2][3] = Message("assistant", outcome.replies[1].text)
             /\ outcome.calls[2][4].role = "user"
             /\ outcome.calls[2][4].content.template = "recommendation"
             /\ outcome.calls[2][4].content.args = <<outcome.replies[1].text>>

\* C17 witness: an empty analysis is carried into the second call.
C17_Witness ==
    /\ outcome.op = "submit_solution"
    /\ outcome.replies[1] = Returns(PlainText(""))
    /\ Len(outcome.calls) = 2
    /\ session_state.current_step = 3

\* The values embedded in the user prompt that ends the messages of a call.
Embedded(messages) == messages[Len(messages)].content.args

\* C18: the solution questions stored at step 2 or 3 were generated from the
\* project_info and scope_answers stored now, and the document stored at
\* step 3 from the project_info, scope_answers and solution_answers stored
\* now. Step by step: whatever arrives at such a step has just generated the
\* data from what it leaves stored, and whatever stays there leaves the data
\* and what it was generated from as they are.
C18_DerivedDataNeverStale ==
    [][/\ session_state'.current_step >= 2
          => \/ /\ session_state.current_step = 1
                /\ outcome'.op = "submit_scope"
                /\ Embedded(outcome'.calls[1]) =
                      <<session_state'.project_info, session_state'.scope_answers>>
                /\ LET r == json_loads(outcome'.replies[1].text)
                   IN session_state'.solution_questions =
                         IF r.raised = "none" THEN r.value
                         ELSE _get_fallback_solution_questions
             \/ /\ session_state.current_step >= 2
                /\ session_state'.project_info = session_state.project_info
                /\ session_state'.scope_answers = session_state.scope_answers
                /\ session_state'.solution_questions = session_state.solution_questions
       /\ session_state'.current_step = 3
          => \/ /\ session_state.current_step = 2
                /\ outcome'.op = "submit_solution"
                /\ Embedded(outcome'.calls[1]) =
                      <<session_state'.project_info, session_state'.scope_answers,
                        session_state'.solution_answers>>
                /\ Embedded(outcome'.calls[2]) = <<outcome'.replies[1].text>>
                /\ LET r == json_loads(outcome'.replies[2].text)
                   IN \/ session_state'.recommendations = FallbackRecommendations
                      \/ /\ r.raised = "none"
                         /\ session_state'.recommendations = r.value
             \/ /\ session_state.current_step = 3
                /\ session_state'.solution_answers = session_state.solution_answers
                /\ session_state'.recommendations = session_state.recommendations]_vars

\* C18 witness: back from step 3 to step 1, other scope answers submitted,
\* and the solution questions generated again.
C18_Witness ==
    /\ outcome.op = "submit_scope"
    /\ session_state.current_step = 2
    /\ session_state.recommendations # PyNone
    /\ session_state.scope_answers # EmptyDict
    /\ session_state.solution_answers # EmptyDict

\* Every key of the answers is one of the questions.
KeysAmong(answers, questions) ==
    PyIterable(questions)
    /\ \A q \in DOMAIN answers : \E i \in DOMAIN PyIter(questions) : PyIter(questions)[i] = q

\* C19 (as claimed): in every state the keys of scope_answers are among the
\* stored scope_questions and the keys of solution_answers among the stored
\* solution_questions.
C19_AnswersMatchStoredQuestions ==
    /\ session_state.scope_answers # EmptyDict
       => KeysAmong(session_state.scope_answers, session_state.scope_questions)
    /\ session_state.solution_answers # EmptyDict
       => KeysAmong(session_state.solution_answers, session_state.solution_questions)

\* C19 (amended): the keys of scope_answers are among the stored
\* scope_questions at steps 2 and 3, and right after a scope form was
\* submitted; the keys of solution_answers are among the stored
\* solution_questions at step 3, and right after a solution form was
\* submitted.
C19_AnswersMatchQuestionsBehindPhase ==
    /\ (session_state.current_step >= 2 \/ outcome.op = "submit_scope")
       => KeysAmong(session_state.scope_answers, session_state.scope_questions)
    /\ (session_state.current_step = 3 \/ outcome.op = "submit_solution")
       => KeysAmong(session_state.solution_answers, session_state.solution_questions)

\* C19 witness: at step 3 with answers to the two questions of a reply and
\* to the solution questions.
C19_Witness ==
    /\ session_state.current_step = 3
    /\ outcome.op = "submit_solution"
    /\ session_state.scope_answers # EmptyDict
    /\ session_state.solution_answers # EmptyDict
    /\ session_state.scope_questions = PyList(<<PyStr("Q1?"), PyStr("Q2?")>>)

\* The positions of the form of the last run that were filled in.
Answered == {i \in DOMAIN outcome.inputs : outcome.inputs[i] # ""}

\* C20 (as claimed): the answers stored by a scope form hold, for every
\* position filled in, that position's input under its question, one entry
\* per position filled in, also when a question appears twice.
C20_NoAnswerLost ==
    outcome.op = "submit_scope"
    => LET questions == PyIter(session_state.scope_questions)
       IN /\ \A i \in Answered :
                /\ questions[i] \in DOMAIN session_state.scope_answers
                /\ session_state.scope_answers[questions[i]] = outcome.inputs[i]
          /\ Cardinality(DOMAIN session_state.scope_answers) = Cardinality(Answered)

====
